---- MODULE Spec2Model ----
(***************************************************************************)
(* Model of lib/cretonne/src/ir/instructions.rs: opcode name lookup,       *)
(* structural analysis of InstructionData, OpcodeConstraints and           *)
(* OperandConstraint resolution.                                           *)
(*                                                                         *)
(* The module holds several specifications over one set of variables.      *)
(* Each specification drives one component and leaves the variables of     *)
(* the other components at their idle values.                              *)
(***************************************************************************)
EXTENDS Integers, Sequences, FiniteSets, TLC

VARIABLES
    \* Opcode name index (impl FromStr for Opcode)
    hash,       \* simple_hash restricted to the catalog names: opcode -> usize
    table,      \* OPCODE_HASH_TABLE: sequence of Option<Opcode> (0 = None)
    pc,         \* position of from_str: "idle", "probe" or "done"
    input,      \* the &str being parsed (sequence of characters)
    idx,        \* probe(): current index
    step,       \* probe(): number of slots visited without a decision
    parsed,     \* Result<Opcode, &str> returned by from_str
    \* Instruction data and its analyzers
    pool,       \* ValueListPool: the value lists allocated so far
    inst,       \* the InstructionData under analysis
    built,      \* the arguments inst was built from (into_value_list)
    binfo,      \* outcome of analyze_branch(&inst, &pool)
    cinfo,      \* outcome of analyze_call(&inst, &pool)
    bdest,      \* outcome of inst.branch_destination()
    bmut,       \* outcome of inst.branch_destination_mut()
    \* Opcode constraints and operand constraint resolution
    oc,         \* the OpcodeConstraints descriptor in use
    rule,       \* the OperandConstraint a direct resolve() call was made on
    opn,        \* argument n of the last call
    ctrl,       \* argument ctrl_type of the last call
    rtype,      \* outcome of oc.result_type(n, ctrl_type)
    vac,        \* outcome of oc.value_argument_constraint(n, ctrl_type)
    resolved,   \* outcome of rule.resolve(ctrl_type)
    read,       \* indices of OPERAND_CONSTRAINTS the last call read
    \* Value type sets
    tset,       \* the ValueTypeSet in use
    qty,        \* the Type the last contains() call asked about
    member,     \* outcome of tset.contains(qty)
    ex,         \* outcome of tset.example()
    \* Decoding of the flags byte of an OpcodeConstraints
    fl,         \* the descriptor whose flags are decoded
    dec         \* the four values decoded from fl.flags

parseVars == <<hash, table, pc, input, idx, step, parsed>>

instVars == <<pool, inst, built, binfo, cinfo, bdest, bmut>>

constrVars == <<oc, rule, opn, ctrl, rtype, vac, resolved, read>>

setVars == <<tset, qty, member, ex>>

flagVars == <<fl, dec>>

vars == <<hash, table, pc, input, idx, step, parsed,
          pool, inst, built, binfo, cinfo, bdest, bmut,
          oc, rule, opn, ctrl, rtype, vac, resolved, read,
          tset, qty, member, ex, fl, dec>>

(***************************************************************************)
(* Option / Result values.                                                 *)
(***************************************************************************)
None == [tag |-> "None"]
Some(x) == [tag |-> "Some", val |-> x]
Ok(x) == [tag |-> "Ok", val |-> x]
Err(e) == [tag |-> "Err", err |-> e]

\* An operation that has not been called on the current state.
NotRun == [tag |-> "NotRun"]

\* A failed assert!, expect(), unwrap() or slice index: no value is returned.
Panic == [tag |-> "Panic"]

\* The idle values of each component's variables.
ParseIdle ==
    /\ hash = <<>>
    /\ table = <<>>
    /\ pc = "off"
    /\ input = <<>>
    /\ idx = 0
    /\ step = 0
    /\ parsed = NotRun

InstIdle ==
    /\ pool = <<>>
    /\ inst = NotRun
    /\ built = NotRun
    /\ binfo = NotRun
    /\ cinfo = NotRun
    /\ bdest = NotRun
    /\ bmut = NotRun

ConstrIdle ==
    /\ oc = NotRun
    /\ rule = NotRun
    /\ opn = 0
    /\ ctrl = NotRun
    /\ rtype = NotRun
    /\ vac = NotRun
    /\ resolved = NotRun
    /\ read = {}

SetIdle ==
    /\ tset = NotRun
    /\ qty = NotRun
    /\ member = NotRun
    /\ ex = NotRun

FlagIdle ==
    /\ fl = NotRun
    /\ dec = NotRun

(***************************************************************************)
(* Opcodes.  An Opcode is its ordinal, starting at 1; Option<Opcode> uses   *)
(* 0 for None (the tables are indexed with `self as usize - 1`).           *)
(***************************************************************************)
NumOpcodes == 3

NotAnOpcode == 0

NUL == "NUL"

\* opcode_name for the opcodes the tests of the module mention, in order.
AllOpcodeNames ==
    << <<"i","a","d","d">>,
       <<"i","a","d","d","_","i","m","m">>,
       <<"i","s","u","b">>,
       <<"i","c","m","p">>,
       <<"c","a","l","l">> >>

Opcodes == 1..NumOpcodes

opcode_name(o) == AllOpcodeNames[o]

\* Display for Opcode: write!(f, "{}", opcode_name(*self))
to_string(o) == opcode_name(o)

Names == {opcode_name(o) : o \in Opcodes}

\* Strings that are not the name of any opcode: empty, NUL, trailing and
\* embedded NUL, a case variation, a proper prefix.
NonNames ==
    { <<>>,
      <<NUL>>,
      <<"i","a","d","d",NUL>>,
      <<"i",NUL,"a","d","d">>,
      <<"I","A","D","D">>,
      <<"i","a","d">> }

Inputs == Names \cup NonNames

(***************************************************************************)
(* The hash table.  Its length is a power of two larger than the number    *)
(* of opcodes; the generator inserts every opcode at the first empty slot  *)
(* found by the probe sequence of its name's hash.                         *)
(***************************************************************************)
RECURSIVE next_power_of_two(_, _)
next_power_of_two(x, p) == IF p > x THEN p ELSE next_power_of_two(x, 2 * p)

TableLen == next_power_of_two(NumOpcodes, 1)

\* The slot visited after `i` by the probe sequence.
next_slot(i) == i + 1

RECURSIVE insert_at(_, _, _)
insert_at(t, o, i) ==
    LET j == i % Len(t) IN
    IF t[j + 1] = NotAnOpcode
    THEN [t EXCEPT ![j + 1] = o]
    ELSE insert_at(t, o, next_slot(j))

RECURSIVE build_table(_, _)
build_table(h, n) ==
    IF n = 0
    THEN [i \in 1..TableLen |-> NotAnOpcode]
    ELSE insert_at(build_table(h, n - 1), n, h[n])

\* impl Table<&str> for [Option<Opcode>]: len()
table_len(t) == Len(t)

\* Faulty variant of table_key: an empty slot yields the empty name.
table_key_no_none(t, i) ==
    IF t[i + 1] = NotAnOpcode THEN Some(<<>>) ELSE Some(opcode_name(t[i + 1]))

\* impl Table<&str> for [Option<Opcode>]: key(idx) = self[idx].map(opcode_name)
table_key(t, i) ==
    IF t[i + 1] = NotAnOpcode THEN None ELSE Some(opcode_name(t[i + 1]))

\* Faulty variant of from_str_result: the slot after the one probe() found.
from_str_result_off_by_one(t, p) ==
    IF p = None THEN Err("Unknown opcode")
    ELSE Ok(t[((p.val + 1) % Len(t)) + 1])

\* Faulty variant of from_str_result: a miss falls back to the first slot's opcode.
from_str_result_default(t, p) ==
    IF p = None THEN Ok(t[1]) ELSE Ok(t[p.val + 1])

\* from_str: match probe(..) { None => Err(..), Some(i) => Ok(TABLE[i].unwrap()) }
from_str_result(t, p) ==
    IF p = None THEN Err("Unknown opcode") ELSE Ok(t[p.val + 1])

(***************************************************************************)
(* Opcode::from_str.                                                       *)
(***************************************************************************)
HashValues == 0..(TableLen - 1)

InitParse ==
    /\ hash \in [Opcodes -> HashValues]
    /\ table = build_table(hash, NumOpcodes)
    /\ pc = "idle"
    /\ input = <<>>
    /\ idx = 0
    /\ step = 0
    /\ parsed = None
    /\ InstIdle
    /\ ConstrIdle
    /\ SetIdle
    /\ FlagIdle

\* from_str(s): probe(&OPCODE_HASH_TABLE, s, simple_hash(s)) starts at the hash.
\* The hash of a catalog name is the one the table was built with.
FromStr ==
    /\ pc = "idle"
    /\ \E s \in Inputs, h \in HashValues :
        /\ (\A o \in Opcodes : s = opcode_name(o) => h = hash[o])
        /\ input' = s
        /\ idx' = h
    /\ step' = 0
    /\ pc' = "probe"
    /\ parsed' = None
    /\ UNCHANGED <<hash, table>>
    /\ UNCHANGED instVars
    /\ UNCHANGED constrVars
    /\ UNCHANGED setVars
    /\ UNCHANGED flagVars

\* One iteration of probe()'s loop, and from_str's match when it returns.
ProbeStep ==
    /\ pc = "probe"
    /\ step <= table_len(table)
    /\ LET i == idx % table_len(table)
           k == table_key(table, i)
       IN
       IF k = None
       THEN /\ parsed' = from_str_result(table, None)
            /\ pc' = "done"
            /\ idx' = i
            /\ step' = step
       ELSE IF k.val = input
       THEN /\ parsed' = from_str_result(table, Some(i))
            /\ pc' = "done"
            /\ idx' = i
            /\ step' = step
       ELSE /\ idx' = next_slot(i)
            /\ step' = step + 1
            /\ UNCHANGED <<pc, parsed>>
    /\ UNCHANGED <<hash, table, input>>
    /\ UNCHANGED instVars
    /\ UNCHANGED constrVars
    /\ UNCHANGED setVars
    /\ UNCHANGED flagVars

\* The caller takes the result; from_str's locals are gone and the next
\* parse may start.
FromStrReturn ==
    /\ pc = "done"
    /\ pc' = "idle"
    /\ input' = <<>>
    /\ idx' = 0
    /\ step' = 0
    /\ parsed' = None
    /\ UNCHANGED <<hash, table>>
    /\ UNCHANGED instVars
    /\ UNCHANGED constrVars
    /\ UNCHANGED setVars
    /\ UNCHANGED flagVars

NextParse == FromStr \/ ProbeStep \/ FromStrReturn

SpecParse == InitParse /\ [][NextParse]_vars

\* from_str is a synchronous call: once started, its loop keeps running.
FairParse == SpecParse /\ WF_vars(ProbeStep)

(***************************************************************************)
(* Claims about Opcode::from_str.                                          *)
(***************************************************************************)

\* C1: parsing the printable name of any opcode o of the catalog returns
\* Ok(o), whatever slots the names collide on.
C1_RoundTrip ==
    \A o \in Opcodes :
        (pc = "done" /\ input = to_string(o)) => parsed = Ok(o)

\* A name was found after at least one colliding slot was skipped.
C1_Witness ==
    /\ pc = "done"
    /\ input = to_string(2)
    /\ step > 0
    /\ parsed = Ok(2)

\* C2: a string that is not exactly the name of an opcode parses to
\* Err("Unknown opcode"), never to an opcode.
C2_UnknownOpcode ==
    (pc = "done" /\ input \notin Names) => parsed = Err("Unknown opcode")

\* "iadd\0" was rejected after the probe walked over occupied slots.
C2_Witness ==
    /\ pc = "done"
    /\ input = <<"i","a","d","d",NUL>>
    /\ step > 0
    /\ parsed = Err("Unknown opcode")

\* C3: every probe that starts comes to an end: it reaches a slot holding
\* the input's name or an empty slot.
C3_ProbeTerminates == (pc = "probe") ~> (pc = "done")

\* A probe for an absent name ended at the empty slot after it collided
\* with every opcode of the table.
C3_Witness ==
    /\ pc = "done"
    /\ input \notin Names
    /\ step = NumOpcodes
    /\ table[(idx % TableLen) + 1] = NotAnOpcode
    /\ parsed = Err("Unknown opcode")

(***************************************************************************)
(* InstructionData, the value list pool and the structural analyzers.      *)
(*                                                                         *)
(* An instruction is a record tagged with its variant.  The variants the   *)
(* analyzers match on carry their fields; of the other variants only the   *)
(* tag is kept, since no analyzer reads their operands.  The opcode field  *)
(* is left out for the same reason.                                        *)
(***************************************************************************)
NumValues == 2
MaxArgs == 3
NumEbbs == 2
NumRefs == 2

Values == 1..NumValues
Ebbs == 1..NumEbbs
JumpTables == 1..NumRefs
FuncRefs == 1..NumRefs
SigRefs == 1..NumRefs
IntCCs == {"eq", "slt"}

\* The variants of InstructionData without a destination, table, callee or
\* value list.
PlainFormats ==
    {"Nullary", "Unary", "UnaryImm", "UnaryIeee32", "UnaryIeee64", "Binary",
     "BinaryImm", "Ternary", "InsertLane", "ExtractLane", "IntCompare",
     "IntCompareImm", "FloatCompare", "StackLoad", "StackStore", "HeapLoad",
     "HeapStore", "Load", "Store", "RegMove"}

ValueSeqs == UNION {[1..n -> Values] : n \in 0..MaxArgs}

\* Every InstructionData whose value list, if it has one, is the handle h.
InstructionData(h) ==
    [format : PlainFormats]
    \cup [format : {"MultiAry"}, args : {h}]
    \cup [format : {"Jump", "Branch"}, destination : Ebbs, args : {h}]
    \cup [format : {"BranchIcmp"}, cond : IntCCs, destination : Ebbs, args : {h}]
    \cup [format : {"BranchTable"}, arg : Values, table : JumpTables]
    \cup [format : {"Call"}, func_ref : FuncRefs, args : {h}]
    \cup [format : {"IndirectCall"}, sig_ref : SigRefs, args : {h}]

HasValueList(i) ==
    i.format \in {"MultiAry", "Jump", "Branch", "BranchIcmp", "Call", "IndirectCall"}

\* ValueList::default(): the empty list, which owns no storage in any pool.
EmptyList == 0

\* EntityList::as_slice(pool): the values of list l, in order.
as_slice(l, p) == IF l = EmptyList THEN <<>> ELSE p[l]

\* The pools a function may hold before the instruction's list is allocated.
PriorPools == {<<>>} \cup {<< <<v>> >> : v \in Values}

\* A list handle together with the pool after an operation on the list.
Listed(l, p) == [list |-> l, pool |-> p]

\* EntityList::push(v, pool): the empty list gets storage in the pool, any
\* other list grows by one value.
push(lp, v) ==
    IF lp.list = EmptyList
    THEN Listed(Len(lp.pool) + 1, Append(lp.pool, <<v>>))
    ELSE Listed(lp.list, [lp.pool EXCEPT ![lp.list] = Append(@, v)])

\* EntityList::extend(elements, pool): the elements are pushed in order.
RECURSIVE extend(_, _)
extend(lp, elements) ==
    IF elements = <<>> THEN lp
    ELSE extend(push(lp, Head(elements)), Tail(elements))

\* Faulty variant of into_value_list: the variable arguments go in first.
into_value_list_variable_first(self, fixed, p) ==
    LET vlist == Listed(EmptyList, p)
        vlist1 == extend(vlist, self)
        vlist2 == extend(vlist1, fixed)
    IN vlist2

\* VariableArgs::into_value_list(self, fixed, pool)
into_value_list(self, fixed, p) ==
    LET vlist == Listed(EmptyList, p)
        vlist1 == extend(vlist, fixed)
        vlist2 == extend(vlist1, self)
    IN vlist2

\* The fixed values a builder prepends: at most two (BranchIcmp).
FixedSeqs == UNION {[1..n -> Values] : n \in 0..2}

\* The longest variable argument list a builder passes.
MaxVarArgs == 2

\* The contents of a VariableArgs.
VariableArgs == UNION {[1..n -> Values] : n \in 0..MaxVarArgs}

\* A slice that was taken.
Slice(s) == [tag |-> "Slice", vals |-> s]

\* `&s[k..]`: the slice from index k on; the index panics when k > s.len().
slice_from(s, k) ==
    IF k > Len(s) THEN Panic ELSE Slice(SubSeq(s, k + 1, Len(s)))

\* enum BranchInfo
NotABranch == [tag |-> "NotABranch"]
SingleDest(d, a) == [tag |-> "SingleDest", dest |-> d, args |-> a]
Table(t) == [tag |-> "Table", table |-> t]

\* enum CallInfo
NotACall == [tag |-> "NotACall"]
Direct(f, a) == [tag |-> "Direct", func_ref |-> f, args |-> a]
Indirect(g, a) == [tag |-> "Indirect", sig_ref |-> g, args |-> a]

\* BranchInfo::SingleDest(destination, slice), unless taking the slice panicked.
single_dest(d, sl) == IF sl = Panic THEN Panic ELSE SingleDest(d, sl.vals)

\* Faulty variant of analyze_branch: a Branch keeps its condition in the arguments.
analyze_branch_keep_cond(i, p) ==
    CASE i.format = "Jump" -> SingleDest(i.destination, as_slice(i.args, p))
      [] i.format = "Branch" ->
            single_dest(i.destination, slice_from(as_slice(i.args, p), 0))
      [] i.format = "BranchIcmp" ->
            single_dest(i.destination, slice_from(as_slice(i.args, p), 2))
      [] i.format = "BranchTable" -> Table(i.table)
      [] OTHER -> NotABranch

\* Faulty variant of analyze_branch: the BranchTable arm is missing.
analyze_branch_no_table(i, p) ==
    CASE i.format = "Jump" -> SingleDest(i.destination, as_slice(i.args, p))
      [] i.format = "Branch" ->
            single_dest(i.destination, slice_from(as_slice(i.args, p), 1))
      [] i.format = "BranchIcmp" ->
            single_dest(i.destination, slice_from(as_slice(i.args, p), 2))
      [] OTHER -> NotABranch

\* InstructionData::analyze_branch
analyze_branch(i, p) ==
    CASE i.format = "Jump" -> SingleDest(i.destination, as_slice(i.args, p))
      [] i.format = "Branch" ->
            single_dest(i.destination, slice_from(as_slice(i.args, p), 1))
      [] i.format = "BranchIcmp" ->
            single_dest(i.destination, slice_from(as_slice(i.args, p), 2))
      [] i.format = "BranchTable" -> Table(i.table)
      [] OTHER -> NotABranch

\* Faulty variant of branch_destination: the BranchIcmp arm is missing.
branch_destination_no_icmp(i) ==
    IF i.format \in {"Jump", "Branch"} THEN Some(i.destination) ELSE None

\* InstructionData::branch_destination
branch_destination(i) ==
    CASE i.format = "Jump" -> Some(i.destination)
      [] i.format = "Branch" -> Some(i.destination)
      [] i.format = "BranchIcmp" -> Some(i.destination)
      [] OTHER -> None

\* InstructionData::branch_destination_mut: Some(&mut destination) or None.
\* The reference is modelled by the label it reads.
branch_destination_mut(i) ==
    CASE i.format = "Jump" -> Some(i.destination)
      [] i.format = "Branch" -> Some(i.destination)
      [] i.format = "BranchIcmp" -> Some(i.destination)
      [] OTHER -> None

\* CallInfo::Indirect(sig_ref, slice), unless taking the slice panicked.
indirect(g, sl) == IF sl = Panic THEN Panic ELSE Indirect(g, sl.vals)

\* Faulty variant of analyze_call: an IndirectCall keeps the callee address.
analyze_call_keep_callee(i, p) ==
    CASE i.format = "Call" -> Direct(i.func_ref, as_slice(i.args, p))
      [] i.format = "IndirectCall" ->
            indirect(i.sig_ref, slice_from(as_slice(i.args, p), 0))
      [] OTHER -> NotACall

\* InstructionData::analyze_call
analyze_call(i, p) ==
    CASE i.format = "Call" -> Direct(i.func_ref, as_slice(i.args, p))
      [] i.format = "IndirectCall" ->
            indirect(i.sig_ref, slice_from(as_slice(i.args, p), 1))
      [] OTHER -> NotACall

InitInst ==
    /\ ParseIdle
    /\ InstIdle
    /\ ConstrIdle
    /\ SetIdle
    /\ FlagIdle

\* A function's pool and one instruction of it: any InstructionData value,
\* its value list (if it has one) allocated in the pool after the prior lists.
NewInst ==
    /\ inst = NotRun
    /\ \E pp \in PriorPools, vs \in ValueSeqs :
         LET h == IF vs = <<>> THEN EmptyList ELSE Len(pp) + 1 IN
         \E i \in InstructionData(h) :
            /\ HasValueList(i) \/ vs = <<>>
            /\ pool' = IF vs = <<>> THEN pp ELSE Append(pp, vs)
            /\ inst' = i
    /\ built' = NotRun
    /\ binfo' = NotRun
    /\ cinfo' = NotRun
    /\ bdest' = NotRun
    /\ bmut' = NotRun
    /\ UNCHANGED parseVars
    /\ UNCHANGED setVars
    /\ UNCHANGED flagVars
    /\ UNCHANGED constrVars

AnalyzeBranch ==
    /\ inst # NotRun
    /\ binfo' = analyze_branch(inst, pool)
    /\ UNCHANGED <<pool, inst, built, cinfo, bdest, bmut>>
    /\ UNCHANGED parseVars
    /\ UNCHANGED setVars
    /\ UNCHANGED flagVars
    /\ UNCHANGED constrVars

AnalyzeCall ==
    /\ inst # NotRun
    /\ cinfo' = analyze_call(inst, pool)
    /\ UNCHANGED <<pool, inst, built, binfo, bdest, bmut>>
    /\ UNCHANGED parseVars
    /\ UNCHANGED setVars
    /\ UNCHANGED flagVars
    /\ UNCHANGED constrVars

BranchDestination ==
    /\ inst # NotRun
    /\ bdest' = branch_destination(inst)
    /\ UNCHANGED <<pool, inst, built, binfo, cinfo, bmut>>
    /\ UNCHANGED parseVars
    /\ UNCHANGED setVars
    /\ UNCHANGED flagVars
    /\ UNCHANGED constrVars

\* The caller of branch_destination_mut writes label e through the reference
\* it got, if any.  What was borrowed or copied from the instruction before
\* the call is dropped.
BranchDestinationMut ==
    /\ inst # NotRun
    /\ LET r == branch_destination_mut(inst) IN
       IF r = None
       THEN /\ bmut' = None
            /\ inst' = inst
       ELSE \E e \in Ebbs :
            /\ bmut' = [tag |-> "Some", val |-> r.val, written |-> e]
            /\ inst' = [inst EXCEPT !.destination = e]
    /\ binfo' = NotRun
    /\ cinfo' = NotRun
    /\ bdest' = NotRun
    /\ UNCHANGED <<pool, built>>
    /\ UNCHANGED parseVars
    /\ UNCHANGED setVars
    /\ UNCHANGED flagVars
    /\ UNCHANGED constrVars

\* An instruction with a value list is built: the list is made by
\* into_value_list from the fixed values and the variable arguments.
Build ==
    /\ inst = NotRun
    /\ \E pp \in PriorPools, fixed \in FixedSeqs, vs \in VariableArgs :
         LET lp == into_value_list(vs, fixed, pp) IN
         \E i \in InstructionData(lp.list) :
            /\ HasValueList(i)
            /\ pool' = lp.pool
            /\ inst' = i
            /\ built' = [prior |-> pp, fixed |-> fixed, vs |-> vs]
    /\ binfo' = NotRun
    /\ cinfo' = NotRun
    /\ bdest' = NotRun
    /\ bmut' = NotRun
    /\ UNCHANGED parseVars
    /\ UNCHANGED setVars
    /\ UNCHANGED flagVars
    /\ UNCHANGED constrVars

\* The function and its pool are dropped.
DropInst ==
    /\ inst # NotRun
    /\ pool' = <<>>
    /\ inst' = NotRun
    /\ built' = NotRun
    /\ binfo' = NotRun
    /\ cinfo' = NotRun
    /\ bdest' = NotRun
    /\ bmut' = NotRun
    /\ UNCHANGED parseVars
    /\ UNCHANGED setVars
    /\ UNCHANGED flagVars
    /\ UNCHANGED constrVars

NextInst ==
    \/ NewInst
    \/ Build
    \/ DropInst
    \/ AnalyzeBranch
    \/ AnalyzeCall
    \/ BranchDestination
    \/ BranchDestinationMut

SpecInst == InitInst /\ [][NextInst]_vars

(***************************************************************************)
(* Claims about the structural analyzers.                                  *)
(***************************************************************************)
SingleDestFormats == {"Jump", "Branch", "BranchIcmp"}

\* The values the current instruction lists.
ListedValues == as_slice(inst.args, pool)

\* The number of leading listed values that are not block arguments.
LeadingValues ==
    CASE inst.format = "Jump" -> 0
      [] inst.format = "Branch" -> 1
      [] inst.format = "BranchIcmp" -> 2

\* a is the list vs without its first k values, in the same order.
IsSuffixFrom(a, vs, k) ==
    /\ Len(a) + k = Len(vs)
    /\ \A j \in 1..Len(a) : a[j] = vs[j + k]

\* C4: analyze_branch reports the stored destination and the listed values
\* from index 0 on for a Jump, from 1 on for a Branch, from 2 on for a
\* BranchIcmp, in their original order.
C4_BranchArguments ==
    (binfo # NotRun /\ inst.format \in SingleDestFormats
        /\ Len(ListedValues) >= LeadingValues)
    => /\ binfo.tag = "SingleDest"
       /\ binfo.dest = inst.destination
       /\ IsSuffixFrom(binfo.args, ListedValues, LeadingValues)

\* A BranchIcmp listing [x, y, a] was analyzed and reported [a].
C4_Witness ==
    /\ binfo # NotRun
    /\ inst.format = "BranchIcmp"
    /\ Len(ListedValues) = 3
    /\ ListedValues[1] # ListedValues[3]
    /\ binfo = SingleDest(inst.destination, <<ListedValues[3]>>)

\* The classification the variant of the current instruction calls for.
BranchClass ==
    CASE inst.format \in SingleDestFormats -> "SingleDest"
      [] inst.format = "BranchTable" -> "Table"
      [] OTHER -> "NotABranch"

\* The list is shorter than the values analyze_branch skips.
ShortBranchList ==
    /\ inst.format \in SingleDestFormats
    /\ Len(ListedValues) < LeadingValues

\* C5 as stated: analyze_branch returns the classification of the variant
\* for every instruction and every length of its value list.
C5_Original ==
    binfo # NotRun =>
        /\ binfo.tag = BranchClass
        /\ inst.format = "BranchTable" => binfo = Table(inst.table)

\* C5 amended: analyze_branch returns the classification of the variant
\* unless the instruction is a Branch with no values or a BranchIcmp with
\* fewer than two values; for those it panics and returns nothing.
C5_Classification ==
    binfo # NotRun =>
        IF ShortBranchList
        THEN binfo = Panic
        ELSE /\ binfo.tag = BranchClass
             /\ inst.format = "BranchTable" => binfo = Table(inst.table)

\* A BranchIcmp with a single listed value was analyzed.
C5_Witness ==
    /\ binfo # NotRun
    /\ inst.format = "BranchIcmp"
    /\ Len(ListedValues) = 1
    /\ binfo = Panic

\* What branch_destination and branch_destination_mut say about the
\* variant: the stored label for the three single-destination variants.
DestinationsAgree ==
    /\ bdest # NotRun =>
          bdest = IF inst.format \in SingleDestFormats
                  THEN Some(inst.destination) ELSE None
    /\ bmut # NotRun =>
          /\ (bmut.tag = "Some") <=> (inst.format \in SingleDestFormats)
          /\ bmut.tag = "Some" => inst.destination = bmut.written
    /\ (bdest # NotRun /\ bmut # NotRun) => bdest.tag = bmut.tag

\* C6 as stated: besides the above, branch_destination is Some(d) exactly
\* when analyze_branch classifies the instruction as SingleDest with label d.
C6_Original ==
    /\ DestinationsAgree
    /\ (bdest # NotRun /\ binfo # NotRun) =>
          /\ (bdest.tag = "Some") <=> (binfo.tag = "SingleDest")
          /\ binfo.tag = "SingleDest" => bdest = Some(binfo.dest)

\* C6 amended: the equivalence with analyze_branch holds whenever
\* analyze_branch returns; where it panics (a Branch with no values, a
\* BranchIcmp with fewer than two) branch_destination is still Some(d).
C6_Destination ==
    /\ DestinationsAgree
    /\ (bdest # NotRun /\ binfo # NotRun) =>
          IF binfo = Panic
          THEN ShortBranchList /\ bdest = Some(inst.destination)
          ELSE /\ (bdest.tag = "Some") <=> (binfo.tag = "SingleDest")
               /\ binfo.tag = "SingleDest" => bdest = Some(binfo.dest)

\* The label of a BranchIcmp was replaced through branch_destination_mut,
\* then read by branch_destination and by analyze_branch.
C6_Witness ==
    /\ inst # NotRun
    /\ inst.format = "BranchIcmp"
    /\ bmut.tag = "Some"
    /\ bmut.val # bmut.written
    /\ bdest = Some(bmut.written)
    /\ binfo.tag = "SingleDest"
    /\ binfo.dest = bmut.written

\* C7 as stated: analyze_call classifies every instruction: a Call as Direct
\* with its callee and all listed values, an IndirectCall as Indirect with
\* its signature and the listed values from index 1 on, any other variant
\* as NotACall.
C7_Original ==
    cinfo # NotRun =>
        CASE inst.format = "Call" ->
                cinfo = Direct(inst.func_ref, ListedValues)
          [] inst.format = "IndirectCall" ->
                /\ cinfo.tag = "Indirect"
                /\ cinfo.sig_ref = inst.sig_ref
                /\ IsSuffixFrom(cinfo.args, ListedValues, 1)
          [] OTHER -> cinfo = NotACall

\* C7 amended: as stated, except that an IndirectCall whose list is empty
\* (no callee address) makes analyze_call panic and return nothing.
C7_CallInfo ==
    cinfo # NotRun =>
        CASE inst.format = "Call" ->
                cinfo = Direct(inst.func_ref, ListedValues)
          [] inst.format = "IndirectCall" ->
                IF Len(ListedValues) = 0
                THEN cinfo = Panic
                ELSE /\ cinfo.tag = "Indirect"
                     /\ cinfo.sig_ref = inst.sig_ref
                     /\ IsSuffixFrom(cinfo.args, ListedValues, 1)
          [] OTHER -> cinfo = NotACall

\* An IndirectCall listing [addr, a] was analyzed and reported [a].
C7_Witness ==
    /\ cinfo # NotRun
    /\ inst.format = "IndirectCall"
    /\ Len(ListedValues) = 2
    /\ ListedValues[1] # ListedValues[2]
    /\ cinfo = Indirect(inst.sig_ref, <<ListedValues[2]>>)

(***************************************************************************)
(* Value types (ir::types).  A Type is a lane type and the log2 of its    *)
(* lane count; a lane type is a kind and the log2 of its width in bits.    *)
(***************************************************************************)
MaxLog2Lanes == 8

VOID == [kind |-> "void", l2b |-> 0, l2l |-> 0]

LaneTypes ==
    [kind : {"int"}, l2b : 3..6, l2l : {0}]
    \cup [kind : {"float"}, l2b : 5..6, l2l : {0}]
    \cup [kind : {"bool"}, l2b : {0, 3, 4, 5, 6}, l2l : {0}]

Types ==
    {VOID} \cup {[s EXCEPT !.l2l = l] : s \in LaneTypes, l \in 0..MaxLog2Lanes}

I8 == [kind |-> "int", l2b |-> 3, l2l |-> 0]
I32 == [kind |-> "int", l2b |-> 5, l2l |-> 0]
I64 == [kind |-> "int", l2b |-> 6, l2l |-> 0]
F32 == [kind |-> "float", l2b |-> 5, l2l |-> 0]
F64 == [kind |-> "float", l2b |-> 6, l2l |-> 0]
B1 == [kind |-> "bool", l2b |-> 0, l2l |-> 0]
B8 == [kind |-> "bool", l2b |-> 3, l2l |-> 0]

RECURSIVE pow2(_)
pow2(n) == IF n = 0 THEN 1 ELSE 2 * pow2(n - 1)

\* Type::lane_bits: 0 for VOID.
lane_bits(t) == IF t = VOID THEN 0 ELSE pow2(t.l2b)

\* Type::lane_count
lane_count(t) == pow2(t.l2l)

\* Type::lane_type
lane_type(t) == [t EXCEPT !.l2l = 0]

\* Type::as_bool: the boolean type with the same lane structure.
as_bool(t) == IF t = VOID THEN VOID ELSE [t EXCEPT !.kind = "bool"]

\* Type::half_width: lanes of half the bits, if there is such a lane type.
half_width(t) ==
    IF t = VOID THEN None
    ELSE LET h == [t EXCEPT !.l2b = t.l2b - 1] IN
         IF lane_type(h) \in LaneTypes THEN Some(h) ELSE None

\* Type::double_width: lanes of twice the bits, if there is such a lane type.
double_width(t) ==
    IF t = VOID \/ t.l2b = 0 THEN None
    ELSE LET d == [t EXCEPT !.l2b = t.l2b + 1] IN
         IF lane_type(d) \in LaneTypes THEN Some(d) ELSE None

\* Type::half_vector: half the lanes; None for a scalar.
half_vector(t) ==
    IF t.l2l = 0 THEN None ELSE Some([t EXCEPT !.l2l = t.l2l - 1])

\* Type::by(2): twice the lanes; None for VOID and beyond the largest vector.
by2(t) ==
    IF lane_bits(t) = 0 \/ t.l2l + 1 > MaxLog2Lanes
    THEN None
    ELSE Some([t EXCEPT !.l2l = t.l2l + 1])

(***************************************************************************)
(* Value type sets and the generated tables.                               *)
(***************************************************************************)
\* BitSet::from_range(lo, hi): the bits lo .. hi-1.
from_range(lo, hi) == lo..(hi - 1)

\* const TYPE_SETS: the type sets the tests of the module build.
TYPE_SETS ==
    << [lanes |-> from_range(0, 9), ints |-> from_range(3, 7),
        floats |-> from_range(0, 0), bools |-> from_range(0, 0)],
       [lanes |-> from_range(0, 8), ints |-> from_range(4, 7),
        floats |-> from_range(0, 0), bools |-> from_range(3, 7)] >>

\* enum OperandConstraint
Concrete(t) == [tag |-> "Concrete", ty |-> t]
FreeRule(i) == [tag |-> "Free", vts |-> i]
Same == [tag |-> "Same"]
LaneOf == [tag |-> "LaneOf"]
AsBool == [tag |-> "AsBool"]
HalfWidth == [tag |-> "HalfWidth"]
DoubleWidth == [tag |-> "DoubleWidth"]
HalfVector == [tag |-> "HalfVector"]
DoubleVector == [tag |-> "DoubleVector"]

\* enum ResolvedConstraint
Bound(t) == [tag |-> "Bound", ty |-> t]
Free(vts) == [tag |-> "Free", set |-> vts]

\* Every OperandConstraint a generated table may hold.
OperandConstraints ==
    {Concrete(t) : t \in {I32, B1}}
    \cup {FreeRule(i) : i \in 0..(Len(TYPE_SETS) - 1)}
    \cup {Same, LaneOf, AsBool, HalfWidth, DoubleWidth, HalfVector, DoubleVector}

\* const OPERAND_CONSTRAINTS: the rules of iadd (Same, Same, Same), bitcast
\* (Same, Free), icmp (AsBool, Same, Same), then one rule of each other kind.
OPERAND_CONSTRAINTS ==
    << Same, Same, Same, FreeRule(0), AsBool, Same, Same, Concrete(I32),
       LaneOf, HalfWidth, DoubleWidth, HalfVector, DoubleVector >>

\* Option::expect inside Bound(..): the value, or a panic on None.
bound_expect(o) == IF o = None THEN Panic ELSE Bound(o.val)

\* Faulty variant of resolve: HalfWidth falls back to the controlling type.
resolve_half_width_lenient(c, t) ==
    CASE c.tag = "Concrete" -> Bound(c.ty)
      [] c.tag = "Free" ->
            IF c.vts < Len(TYPE_SETS) THEN Free(TYPE_SETS[c.vts + 1]) ELSE Panic
      [] c.tag = "Same" -> Bound(t)
      [] c.tag = "LaneOf" -> Bound(lane_type(t))
      [] c.tag = "AsBool" -> Bound(as_bool(t))
      [] c.tag = "HalfWidth" ->
            IF half_width(t) = None THEN Bound(t) ELSE Bound(half_width(t).val)
      [] c.tag = "DoubleWidth" -> bound_expect(double_width(t))
      [] c.tag = "HalfVector" -> bound_expect(half_vector(t))
      [] c.tag = "DoubleVector" -> bound_expect(by2(t))

\* OperandConstraint::resolve
resolve(c, t) ==
    CASE c.tag = "Concrete" -> Bound(c.ty)
      [] c.tag = "Free" ->
            IF c.vts < Len(TYPE_SETS) THEN Free(TYPE_SETS[c.vts + 1]) ELSE Panic
      [] c.tag = "Same" -> Bound(t)
      [] c.tag = "LaneOf" -> Bound(lane_type(t))
      [] c.tag = "AsBool" -> Bound(as_bool(t))
      [] c.tag = "HalfWidth" -> bound_expect(half_width(t))
      [] c.tag = "DoubleWidth" -> bound_expect(double_width(t))
      [] c.tag = "HalfVector" -> bound_expect(half_vector(t))
      [] c.tag = "DoubleVector" -> bound_expect(by2(t))

(***************************************************************************)
(* OpcodeConstraints.                                                      *)
(***************************************************************************)
MaxFixed == 2

\* (self.flags & 0x8) != 0
use_typevar_operand(c) == (c.flags \div 8) % 2 # 0

\* (self.flags & 0x10) != 0
requires_typevar_operand(c) == (c.flags \div 16) % 2 # 0

\* (self.flags & 0x7) as usize
fixed_results(c) == c.flags % 8

\* Faulty variant of fixed_value_arguments: the shift is 4, not 5.
fixed_value_arguments_shift_4(c) == (c.flags \div 16) % 8

\* ((self.flags >> 5) & 0x7) as usize
fixed_value_arguments(c) == (c.flags \div 32) % 8

\* self.constraint_offset as usize
constraint_offset(c) == c.constraint_offset

\* The descriptors a generated OPCODE_CONSTRAINTS table may hold: the rules
\* of an opcode lie inside OPERAND_CONSTRAINTS.
Descriptors ==
    {c \in [flags : 0..255,
            typeset_offset : {0, 255},
            constraint_offset : 0..Len(OPERAND_CONSTRAINTS)] :
        /\ fixed_results(c) <= MaxFixed
        /\ fixed_value_arguments(c) <= MaxFixed
        /\ constraint_offset(c) + fixed_results(c) + fixed_value_arguments(c)
              <= Len(OPERAND_CONSTRAINTS)}

\* The controlling types the calls are made with.
CtrlTypes ==
    {VOID, I8, I32, F32, F64, B1,
     [I32 EXCEPT !.l2l = 2], [I8 EXCEPT !.l2l = MaxLog2Lanes]}

\* OPERAND_CONSTRAINTS[i].resolve(t); indexing past the table panics.
resolve_at(i, t) ==
    IF i < Len(OPERAND_CONSTRAINTS)
    THEN resolve(OPERAND_CONSTRAINTS[i + 1], t)
    ELSE Panic

\* result_type's index: self.constraint_offset() + n
result_rule_index(c, n) == constraint_offset(c) + n

\* Faulty variant of arg_rule_index: the results are not skipped.
arg_rule_index_no_results(c, n) == constraint_offset(c) + n

\* value_argument_constraint's index:
\* self.constraint_offset() + self.fixed_results() + n
arg_rule_index(c, n) == constraint_offset(c) + fixed_results(c) + n

\* A returned Type.
Ret(t) == [tag |-> "Type", ty |-> t]

\* Faulty variant of result_type: the index n is not asserted.
result_type_no_assert(c, n, t) ==
    LET r == resolve_at(result_rule_index(c, n), t) IN
    [out |-> IF r.tag = "Bound" THEN Ret(r.ty) ELSE Panic,
     read |-> {result_rule_index(c, n)}]

\* OpcodeConstraints::result_type: the outcome and the table indices read.
result_type(c, n, t) ==
    IF ~(n < fixed_results(c))
    THEN [out |-> Panic, read |-> {}]
    ELSE LET r == resolve_at(result_rule_index(c, n), t) IN
         [out |-> IF r.tag = "Bound" THEN Ret(r.ty) ELSE Panic,
          read |-> {result_rule_index(c, n)}]

\* OpcodeConstraints::value_argument_constraint: outcome and indices read.
value_argument_constraint(c, n, t) ==
    IF ~(n < fixed_value_arguments(c))
    THEN [out |-> Panic, read |-> {}]
    ELSE [out |-> resolve_at(arg_rule_index(c, n), t),
          read |-> {arg_rule_index(c, n)}]

InitConstr ==
    /\ ParseIdle
    /\ InstIdle
    /\ ConstrIdle
    /\ SetIdle
    /\ FlagIdle

\* Opcode::constraints(): the descriptor of some opcode.
Constraints ==
    /\ oc = NotRun
    /\ rule = NotRun
    /\ oc' \in Descriptors
    /\ UNCHANGED <<rule, opn, ctrl, rtype, vac, resolved, read>>
    /\ UNCHANGED parseVars
    /\ UNCHANGED setVars
    /\ UNCHANGED flagVars
    /\ UNCHANGED instVars

ResultType ==
    /\ oc # NotRun
    /\ rtype = NotRun
    /\ vac = NotRun
    /\ \E n \in 0..(MaxFixed + 1), t \in CtrlTypes :
        LET r == result_type(oc, n, t) IN
        /\ opn' = n
        /\ ctrl' = t
        /\ rtype' = r.out
        /\ read' = r.read
    /\ UNCHANGED <<oc, rule, vac, resolved>>
    /\ UNCHANGED parseVars
    /\ UNCHANGED setVars
    /\ UNCHANGED flagVars
    /\ UNCHANGED instVars

ValueArgumentConstraint ==
    /\ oc # NotRun
    /\ rtype = NotRun
    /\ vac = NotRun
    /\ \E n \in 0..(MaxFixed + 1), t \in CtrlTypes :
        LET r == value_argument_constraint(oc, n, t) IN
        /\ opn' = n
        /\ ctrl' = t
        /\ vac' = r.out
        /\ read' = r.read
    /\ UNCHANGED <<oc, rule, rtype, resolved>>
    /\ UNCHANGED parseVars
    /\ UNCHANGED setVars
    /\ UNCHANGED flagVars
    /\ UNCHANGED instVars

\* A direct call of resolve on any rule with any controlling type.
Resolve ==
    /\ oc = NotRun
    /\ rule = NotRun
    /\ \E c \in OperandConstraints, t \in Types :
        /\ rule' = c
        /\ ctrl' = t
        /\ resolved' = resolve(c, t)
    /\ UNCHANGED <<oc, opn, rtype, vac, read>>
    /\ UNCHANGED parseVars
    /\ UNCHANGED setVars
    /\ UNCHANGED flagVars
    /\ UNCHANGED instVars

\* The caller is done with the outcome.
ConstrReturn ==
    /\ oc # NotRun \/ rule # NotRun
    /\ oc' = NotRun
    /\ rule' = NotRun
    /\ opn' = 0
    /\ ctrl' = NotRun
    /\ rtype' = NotRun
    /\ vac' = NotRun
    /\ resolved' = NotRun
    /\ read' = {}
    /\ UNCHANGED parseVars
    /\ UNCHANGED setVars
    /\ UNCHANGED flagVars
    /\ UNCHANGED instVars

NextConstr ==
    \/ Constraints
    \/ ResultType
    \/ ValueArgumentConstraint
    \/ Resolve
    \/ ConstrReturn

SpecConstr == InitConstr /\ [][NextConstr]_vars

(***************************************************************************)
(* Claims about OpcodeConstraints and OperandConstraint::resolve.          *)
(***************************************************************************)

\* C8: result_type(n, ctrl_type) panics when n >= fixed_results() and when
\* the rule at constraint_offset + n resolves to a free type set; otherwise
\* it returns the type that rule resolves to (a panic of resolve itself is
\* passed on).  It returns no type for an out-of-range n and reads no rule
\* of the argument part of the opcode's slice.
C8_ResultType ==
    rtype # NotRun =>
        LET fr == oc.flags % 8
            off == oc.constraint_offset
        IN
        /\ opn >= fr => (rtype = Panic /\ read = {})
        /\ rtype.tag = "Type" => opn < fr
        /\ \A i \in read : off <= i /\ i < off + fr
        /\ opn < fr =>
              LET r == resolve(OPERAND_CONSTRAINTS[off + opn + 1], ctrl) IN
              /\ read = {off + opn}
              /\ r.tag = "Free" => rtype = Panic
              /\ r.tag = "Bound" => rtype = Ret(r.ty)
              /\ r = Panic => rtype = Panic

\* The second result of a descriptor with arguments, at a nonzero offset,
\* was resolved to a type.
C8_Witness ==
    /\ rtype # NotRun
    /\ rtype.tag = "Type"
    /\ opn = 1
    /\ oc.constraint_offset > 0
    /\ (oc.flags \div 32) % 8 > 0
    /\ read = {oc.constraint_offset + 1}

\* C9: value_argument_constraint(n, ctrl_type) panics unless
\* n < fixed_value_arguments() and otherwise resolves the rule at
\* constraint_offset + fixed_results() + n; the rules read by result_type and
\* by value_argument_constraint over all valid n are disjoint and are the
\* fixed_results + fixed_value_arguments consecutive entries from
\* constraint_offset on, results first.
C9_ArgumentRules ==
    /\ vac # NotRun =>
          LET fr == oc.flags % 8
              fva == (oc.flags \div 32) % 8
              off == oc.constraint_offset
          IN
          /\ opn >= fva => (vac = Panic /\ read = {})
          /\ opn < fva =>
                /\ read = {off + fr + opn}
                /\ vac = resolve(OPERAND_CONSTRAINTS[off + fr + opn + 1], ctrl)
    /\ oc # NotRun =>
          LET fr == oc.flags % 8
              fva == (oc.flags \div 32) % 8
              off == oc.constraint_offset
              R == {result_rule_index(oc, n) : n \in 0..(fr - 1)}
              A == {arg_rule_index(oc, n) : n \in 0..(fva - 1)}
          IN
          /\ R \cap A = {}
          /\ R \cup A = off..(off + fr + fva - 1)
          /\ Cardinality(R) = fr
          /\ Cardinality(A) = fva
          /\ \A r \in R, a \in A : r < a

\* The argument of a descriptor with one result resolved to a free type set.
C9_Witness ==
    /\ vac # NotRun
    /\ vac.tag = "Free"
    /\ oc.flags % 8 = 1
    /\ opn = 0
    /\ read = {oc.constraint_offset + 1}

\* Type u has the lane type of t with lanes of b bits.
SameKindBits(u, t, b) ==
    /\ u # VOID
    /\ t # VOID
    /\ u.kind = t.kind
    /\ lane_bits(u) = b
    /\ u.l2l = t.l2l

\* Type u has the lane type of t and n lanes.
SameLaneTypeCount(u, t, n) ==
    /\ u # VOID
    /\ t # VOID
    /\ lane_type(u) = lane_type(t)
    /\ lane_count(u) = n

\* The types that are the half/double width/vector counterpart of ctrl.
Counterparts(tag) ==
    CASE tag = "HalfWidth" ->
            {u \in Types : SameKindBits(u, ctrl, lane_bits(ctrl) \div 2)
                           /\ 2 * lane_bits(u) = lane_bits(ctrl)}
      [] tag = "DoubleWidth" ->
            {u \in Types : SameKindBits(u, ctrl, 2 * lane_bits(ctrl))}
      [] tag = "HalfVector" ->
            {u \in Types : SameLaneTypeCount(u, ctrl, lane_count(ctrl) \div 2)
                           /\ 2 * lane_count(u) = lane_count(ctrl)}
      [] tag = "DoubleVector" ->
            {u \in Types : SameLaneTypeCount(u, ctrl, 2 * lane_count(ctrl))}

\* C10: resolve gives Bound(t) for Concrete(t), Free(TYPE_SETS[i]) for
\* Free(i), Bound(ctrl_type) for Same, Bound of the lane type for LaneOf,
\* Bound of the boolean type of the same shape for AsBool; for HalfWidth,
\* DoubleWidth, HalfVector and DoubleVector it gives Bound of the counterpart
\* of ctrl_type when there is one and panics exactly when there is none.
C10_Resolve ==
    resolved # NotRun =>
        CASE rule.tag = "Concrete" -> resolved = Bound(rule.ty)
          [] rule.tag = "Free" -> resolved = Free(TYPE_SETS[rule.vts + 1])
          [] rule.tag = "Same" -> resolved = Bound(ctrl)
          [] rule.tag = "LaneOf" ->
                /\ resolved.tag = "Bound"
                /\ resolved.ty.l2l = 0
                /\ resolved.ty.kind = ctrl.kind
                /\ resolved.ty.l2b = ctrl.l2b
          [] rule.tag = "AsBool" ->
                /\ resolved.tag = "Bound"
                /\ resolved.ty.l2l = ctrl.l2l
                /\ resolved.ty.l2b = ctrl.l2b
                /\ resolved.ty.kind = IF ctrl = VOID THEN "void" ELSE "bool"
          [] OTHER ->
                IF Counterparts(rule.tag) = {}
                THEN resolved = Panic
                ELSE /\ resolved.tag = "Bound"
                     /\ Counterparts(rule.tag) = {resolved.ty}

\* Doubling the lanes of a vector of the largest lane count panicked.
C10_Witness ==
    /\ resolved = Panic
    /\ rule = DoubleVector
    /\ ctrl # VOID
    /\ ctrl.l2l = MaxLog2Lanes

(***************************************************************************)
(* ValueTypeSet.  A BitSet is the set of the indices of its set bits.      *)
(***************************************************************************)
\* BitSet::contains(num)
bitset_contains(b, n) == n \in b

\* BitSet::min(): the lowest set bit, None for the empty set.
bitset_min(b) ==
    IF b = {} THEN None ELSE Some(CHOOSE n \in b : \A k \in b : n <= k)

\* BitSet::max(): the highest set bit, None for the empty set.
bitset_max(b) ==
    IF b = {} THEN None ELSE Some(CHOOSE n \in b : \A k \in b : n >= k)

\* Option::unwrap_or(d)
unwrap_or(o, d) == IF o = None THEN d ELSE o.val

\* Type::is_int, is_float, is_bool
is_int(t) == t.kind = "int"
is_float(t) == t.kind = "float"
is_bool(t) == t.kind = "bool"

\* Type::log2_lane_bits, Type::log2_lane_count
log2_lane_bits(t) == t.l2b
log2_lane_count(t) == t.l2l

B32 == [kind |-> "bool", l2b |-> 5, l2l |-> 0]

RECURSIVE log2(_)
log2(n) == IF n <= 1 THEN 0 ELSE 1 + log2(n \div 2)

\* Type::by(n) for a power of two n: n times the lanes; None for VOID and
\* beyond the largest vector.
by(t, n) ==
    IF lane_bits(t) = 0 \/ t.l2l + log2(n) > MaxLog2Lanes
    THEN None
    ELSE Some([t EXCEPT !.l2l = t.l2l + log2(n)])

\* The bit set of the widths (or lane counts) lo .. hi, both powers of two.
width_range(lo, hi) == from_range(log2(lo), log2(hi) + 1)

\* The value type sets in use: each bit set is a range, as the generator and
\* the tests build them.
ValueTypeSets ==
    [lanes : {from_range(lo, hi) : lo \in 0..2, hi \in {0, 1, 4, 8, 9}},
     ints : {from_range(lo, hi) : lo \in 3..7, hi \in 3..8},
     floats : {from_range(lo, hi) : lo \in 5..7, hi \in 5..7},
     bools : {from_range(0, 0), from_range(0, 1), from_range(3, 7),
              from_range(0, 7)}]

\* ValueTypeSet::is_base_type
is_base_type(s, scalar) ==
    LET l2b == log2_lane_bits(scalar) IN
    IF is_int(scalar) THEN bitset_contains(s.ints, l2b)
    ELSE IF is_float(scalar) THEN bitset_contains(s.floats, l2b)
    ELSE IF is_bool(scalar) THEN bitset_contains(s.bools, l2b)
    ELSE FALSE

\* Faulty variant of contains: the lane count is not looked at.
contains_any_lanes(s, typ) == is_base_type(s, lane_type(typ))

\* ValueTypeSet::contains
contains(s, typ) ==
    LET l2l == log2_lane_count(typ) IN
    bitset_contains(s.lanes, l2l) /\ is_base_type(s, lane_type(typ))

\* Option::unwrap inside Ret(..): the value, or a panic on None.
ret_unwrap(o) == IF o = None THEN Panic ELSE Ret(o.val)

\* ValueTypeSet::example
example(s) ==
    LET t == IF unwrap_or(bitset_max(s.ints), 0) > 5 THEN I32
             ELSE IF unwrap_or(bitset_max(s.floats), 0) > 5 THEN F32
             ELSE IF unwrap_or(bitset_max(s.bools), 0) > 5 THEN B32
             ELSE B1
        m == bitset_min(s.lanes)
    IN
    IF m = None THEN Panic ELSE ret_unwrap(by(t, pow2(m.val)))

\* A returned bool.
Answer(b) == [tag |-> "Answer", val |-> b]

InitSet ==
    /\ ParseIdle
    /\ InstIdle
    /\ ConstrIdle
    /\ SetIdle
    /\ FlagIdle

\* A type set of TYPE_SETS, or one a test builds.
NewTypeSet ==
    /\ tset = NotRun
    /\ tset' \in ValueTypeSets
    /\ UNCHANGED <<qty, member, ex>>
    /\ UNCHANGED <<parseVars, instVars, constrVars, flagVars>>

Contains ==
    /\ tset # NotRun
    /\ member = NotRun
    /\ \E t \in Types :
        /\ qty' = t
        /\ member' = Answer(contains(tset, t))
    /\ UNCHANGED <<tset, ex>>
    /\ UNCHANGED <<parseVars, instVars, constrVars, flagVars>>

Example ==
    /\ tset # NotRun
    /\ ex = NotRun
    /\ ex' = example(tset)
    /\ UNCHANGED <<tset, qty, member>>
    /\ UNCHANGED <<parseVars, instVars, constrVars, flagVars>>

\* The caller is done with the type set.
DropTypeSet ==
    /\ tset # NotRun
    /\ tset' = NotRun
    /\ qty' = NotRun
    /\ member' = NotRun
    /\ ex' = NotRun
    /\ UNCHANGED <<parseVars, instVars, constrVars, flagVars>>

NextSet ==
    \/ NewTypeSet
    \/ Contains
    \/ Example
    \/ DropTypeSet

SpecSet == InitSet /\ [][NextSet]_vars

(***************************************************************************)
(* Claims about ValueTypeSet.                                              *)
(***************************************************************************)

\* The set built from the integer widths 16 .. 128 and the lane counts 1 .. 8.
Ints16To128Lanes1To8 ==
    [lanes |-> width_range(1, 8), ints |-> width_range(16, 128),
     floats |-> {}, bools |-> {}]

\* The bit set of the base kind of type t; none for VOID.
KindBits(s, t) ==
    CASE t.kind = "int" -> s.ints
      [] t.kind = "float" -> s.floats
      [] t.kind = "bool" -> s.bools
      [] OTHER -> {}

\* C11: contains(t) holds exactly when log2 of t's lane count is in the lane
\* bit set and log2 of t's lane width is in the bit set of t's base kind; the
\* set built from the integer widths 16 .. 128 and the lane counts 1 .. 8
\* holds exactly the integer types of width 16, 32, 64 or 128 with 1, 2, 4
\* or 8 lanes: no 8-bit integer, no float, no boolean type.
C11_Contains ==
    member # NotRun =>
        /\ member.val <=> (qty.l2l \in tset.lanes /\ qty.l2b \in KindBits(tset, qty))
        /\ tset = Ints16To128Lanes1To8 =>
              (member.val <=> /\ qty.kind = "int"
                              /\ lane_bits(qty) \in {16, 32, 64, 128}
                              /\ lane_count(qty) \in {1, 2, 4, 8})

\* The set was asked about i16x8 and said yes.
C11_Witness ==
    /\ tset = Ints16To128Lanes1To8
    /\ qty = [kind |-> "int", l2b |-> 4, l2l |-> 3]
    /\ member = Answer(TRUE)

\* The type set has at least one member.
HasMember(s) == \E t \in Types : contains(s, t)

\* C12: for every ValueTypeSet with at least one member, example() returns a
\* member of the set: contains(example()) is true.
C12_ExampleIsMember ==
    (ex # NotRun /\ HasMember(tset)) =>
        /\ ex.tag = "Type"
        /\ contains(tset, ex.ty)

(***************************************************************************)
(* The flags byte of OpcodeConstraints.                                    *)
(***************************************************************************)
\* Every flags byte, with the offsets at their ends.
FlagDescriptors ==
    [flags : 0..255,
     typeset_offset : {0, 255},
     constraint_offset : {0, Len(OPERAND_CONSTRAINTS)}]

\* No accessor has been called yet.
Undecoded ==
    [fixed_results |-> None,
     use_typevar_operand |-> None,
     requires_typevar_operand |-> None,
     fixed_value_arguments |-> None]

InitFlags ==
    /\ ParseIdle
    /\ InstIdle
    /\ ConstrIdle
    /\ SetIdle
    /\ FlagIdle

\* A descriptor of the generated OPCODE_CONSTRAINTS table.
NewFlags ==
    /\ fl = NotRun
    /\ fl' \in FlagDescriptors
    /\ dec' = Undecoded
    /\ UNCHANGED <<parseVars, instVars, constrVars, setVars>>

FixedResults ==
    /\ fl # NotRun
    /\ dec.fixed_results = None
    /\ dec' = [dec EXCEPT !.fixed_results = Some(fixed_results(fl))]
    /\ UNCHANGED fl
    /\ UNCHANGED <<parseVars, instVars, constrVars, setVars>>

UseTypevarOperand ==
    /\ fl # NotRun
    /\ dec.use_typevar_operand = None
    /\ dec' = [dec EXCEPT !.use_typevar_operand = Some(use_typevar_operand(fl))]
    /\ UNCHANGED fl
    /\ UNCHANGED <<parseVars, instVars, constrVars, setVars>>

RequiresTypevarOperand ==
    /\ fl # NotRun
    /\ dec.requires_typevar_operand = None
    /\ dec' = [dec EXCEPT !.requires_typevar_operand =
                              Some(requires_typevar_operand(fl))]
    /\ UNCHANGED fl
    /\ UNCHANGED <<parseVars, instVars, constrVars, setVars>>

FixedValueArguments ==
    /\ fl # NotRun
    /\ dec.fixed_value_arguments = None
    /\ dec' = [dec EXCEPT !.fixed_value_arguments =
                              Some(fixed_value_arguments(fl))]
    /\ UNCHANGED fl
    /\ UNCHANGED <<parseVars, instVars, constrVars, setVars>>

\* The caller is done with the descriptor.
DropFlags ==
    /\ fl # NotRun
    /\ fl' = NotRun
    /\ dec' = NotRun
    /\ UNCHANGED <<parseVars, instVars, constrVars, setVars>>

NextFlags ==
    \/ NewFlags
    \/ FixedResults
    \/ UseTypevarOperand
    \/ RequiresTypevarOperand
    \/ FixedValueArguments
    \/ DropFlags

SpecFlags == InitFlags /\ [][NextFlags]_vars

(***************************************************************************)
(* Claims about the flags byte.                                            *)
(***************************************************************************)

\* Bit k of the byte n.
Bit(n, k) == (n \div pow2(k)) % 2

\* What the four accessors return for descriptor c.
Decoded(c) ==
    [fixed_results |-> Some(fixed_results(c)),
     use_typevar_operand |-> Some(use_typevar_operand(c)),
     requires_typevar_operand |-> Some(requires_typevar_operand(c)),
     fixed_value_arguments |-> Some(fixed_value_arguments(c))]

\* C13: for every flags byte, fixed_results() = flags mod 8 (bits 0-2),
\* use_typevar_operand() = bit 3, requires_typevar_operand() = bit 4 and
\* fixed_value_arguments() = (flags div 32) mod 8 (bits 5-7); both counts are
\* in 0..7, and the four decoded values determine the flags byte: no other
\* byte decodes to the same four values.
C13_FlagFields ==
    fl # NotRun =>
        LET f == fl.flags IN
        /\ dec.fixed_results # None =>
              /\ dec.fixed_results.val = f % 8
              /\ dec.fixed_results.val =
                    Bit(f, 0) + 2 * Bit(f, 1) + 4 * Bit(f, 2)
              /\ dec.fixed_results.val \in 0..7
        /\ dec.use_typevar_operand # None =>
              (dec.use_typevar_operand.val <=> Bit(f, 3) = 1)
        /\ dec.requires_typevar_operand # None =>
              (dec.requires_typevar_operand.val <=> Bit(f, 4) = 1)
        /\ dec.fixed_value_arguments # None =>
              /\ dec.fixed_value_arguments.val = (f \div 32) % 8
              /\ dec.fixed_value_arguments.val =
                    Bit(f, 5) + 2 * Bit(f, 6) + 4 * Bit(f, 7)
              /\ dec.fixed_value_arguments.val \in 0..7
        /\ (\A k \in DOMAIN dec : dec[k] # None) =>
              \A g \in 0..255 :
                  Decoded([fl EXCEPT !.flags = g]) = dec => g = f

\* The byte 0xAB was decoded: 3 results, bit 3 set, bit 4 clear, 5 arguments.
C13_Witness ==
    /\ fl # NotRun
    /\ fl.flags = 171
    /\ dec = [fixed_results |-> Some(3),
              use_typevar_operand |-> Some(TRUE),
              requires_typevar_operand |-> Some(FALSE),
              fixed_value_arguments |-> Some(5)]

(***************************************************************************)
(* Claims about building value lists.                                      *)
(***************************************************************************)

\* The number of fixed values the format keeps at the head of its list.
FixedCount(format) ==
    CASE format = "Branch" -> 1
      [] format = "BranchIcmp" -> 2
      [] format = "IndirectCall" -> 1
      [] OTHER -> 0

\* C14: into_value_list(fixed, pool) yields a list that holds the fixed
\* values followed by the variable arguments, each in order; and building
\* then analysing is a round trip: a Branch built with one fixed value, a
\* BranchIcmp built with two, an IndirectCall built with one, and a Jump or
\* Call built with none report exactly the variable arguments from
\* analyze_branch / analyze_call.
C14_BuildRoundTrip ==
    built # NotRun =>
        /\ as_slice(inst.args, pool) = built.fixed \o built.vs
        /\ (/\ binfo # NotRun
            /\ inst.format \in {"Jump", "Branch", "BranchIcmp"}
            /\ Len(built.fixed) = FixedCount(inst.format)) =>
              binfo = SingleDest(inst.destination, built.vs)
        /\ (/\ cinfo # NotRun
            /\ inst.format = "Call"
            /\ Len(built.fixed) = 0) =>
              cinfo = Direct(inst.func_ref, built.vs)
        /\ (/\ cinfo # NotRun
            /\ inst.format = "IndirectCall"
            /\ Len(built.fixed) = 1) =>
              cinfo = Indirect(inst.sig_ref, built.vs)

\* A BranchIcmp built from two fixed values and two different variable
\* arguments, in a pool that already held a list, was analysed.
C14_Witness ==
    /\ built # NotRun
    /\ inst.format = "BranchIcmp"
    /\ built.prior # <<>>
    /\ built.fixed = <<1, 1>>
    /\ built.vs = <<2, 1>>
    /\ binfo = SingleDest(inst.destination, <<2, 1>>)

====
